---- MODULE Spec2Model ----
(***************************************************************************)
(* Water-Intake-Tracker (src/app.py): the persistence and state-transition *)
(* logic of WaterTrackerApp.                                               *)
(*                                                                         *)
(* State: the Tk DoubleVar current_intake, the JSON document in DATA_FILE, *)
(* the status label, the last message box, the calendar day.               *)
(* Operations: __init__ (load_data + update_display), the two quick-add    *)
(* buttons, add_custom_amount, reset_day, plus the environment: the        *)
(* calendar day advancing and the process being closed and started again.  *)
(*                                                                         *)
(* Numbers.  Python floats are IEEE-754 binary64, rounded to nearest, ties *)
(* to even.  The model keeps the rounding rule and shortens the            *)
(* significand to MantissaBits bits: one model unit is one millilitre, and *)
(* the values just below DAILY_GOAL are spaced one unit apart where        *)
(* binary64 spaces them 2^-42 mL apart.  Texts (entry field, JSON number   *)
(* and string tokens, ISO dates) are sequences of one-character strings.   *)
(* Storage is assumed to accept every write.                               *)
(***************************************************************************)
EXTENDS Integers, Sequences, FiniteSets, TLC

VARIABLES
    pc,              \* "init": before __init__ (line 47 done); "running": in
                     \* mainloop; "crashed": __init__ raised
    today,           \* date.today(), as a day number
    file,            \* the content of DATA_FILE
    current_intake,  \* the tk.DoubleVar: [ok, v], ok = get() returns v
    status_label,    \* the status label as update_display left it
    messagebox,      \* the message box the last handler showed, "" for none
    raised,          \* the exception that left __init__, "" for none
    last,            \* history: the handler last invoked, its inputs, the
                     \* in-memory intake it found (pre), whether it called
                     \* add_water (add, with amount arg)
    written,         \* history: the day and intake of the last save_data
    mem_oldest,      \* history: the day the oldest amount counted in
                     \* current_intake was added, 0 when it counts none
    file_oldest      \* history: the same for the intake stored in the file

vars == <<pc, today, file, current_intake, status_label, messagebox, raised,
          last, written, mem_oldest, file_oldest>>

DAILY_GOAL == 2000

\* Significand width of the model's floats (binary64 has 53).
MantissaBits == 11

\* Last calendar day the clock reaches; the run starts on day 1.
MaxDay == 2

(***************************************************************************)
(* Floating point: round to nearest, ties to even.                         *)
(***************************************************************************)
RECURSIVE Pow2(_)
Pow2(n) == IF n = 0 THEN 1 ELSE 2 * Pow2(n - 1)

RECURSIVE UlpFrom(_, _)
UlpFrom(m, u) == IF m < u * Pow2(MantissaBits) THEN u ELSE UlpFrom(m, 2 * u)

\* Distance between neighbouring representable values at magnitude m.
Ulp(m) == UlpFrom(m, 1)

RoundNat(m) ==
    LET u == Ulp(m)
        q == m \div u
        r == m % u
    IN  IF 2 * r < u THEN q * u
        ELSE IF 2 * r > u THEN (q + 1) * u
        ELSE IF q % 2 = 0 THEN q * u
        ELSE (q + 1) * u

Round(x) == IF x < 0 THEN 0 - RoundNat(0 - x) ELSE RoundNat(x)

FloatAdd(a, b) == Round(a + b)

FloatSub(a, b) == Round(a - b)

(***************************************************************************)
(* Texts: decimal literals, float(), repr(), str(date).                    *)
(***************************************************************************)
DigitChars == <<"0", "1", "2", "3", "4", "5", "6", "7", "8", "9">>

IsDigit(c) == \E i \in 1..10 : DigitChars[i] = c

DigitVal(c) == (CHOOSE i \in 1..10 : DigitChars[i] = c) - 1

RECURSIVE DecValue(_)
DecValue(s) ==
    IF s = <<>> THEN 0
    ELSE 10 * DecValue(SubSeq(s, 1, Len(s) - 1)) + DigitVal(s[Len(s)])

RECURSIVE NatDigits(_)
NatDigits(n) ==
    IF n < 10 THEN <<DigitChars[n + 1]>>
    ELSE NatDigits(n \div 10) \o <<DigitChars[(n % 10) + 1]>>

RECURSIVE DigitPrefix(_)
DigitPrefix(s) ==
    IF s = <<>> THEN <<>>
    ELSE IF IsDigit(Head(s)) THEN <<Head(s)>> \o DigitPrefix(Tail(s))
    ELSE <<>>

IsNegative(s) == IF s = <<>> THEN FALSE ELSE Head(s) = "-"

Unsigned(s) == IF IsNegative(s) THEN Tail(s) ELSE s

Fraction(s) ==
    SubSeq(Unsigned(s), Len(DigitPrefix(Unsigned(s))) + 1, Len(Unsigned(s)))

\* [-]digits[.0...]: the literals float(), json.load and Tcl's getdouble
\* all read as the same number.
IsNumberLiteral(s) ==
    /\ DigitPrefix(Unsigned(s)) # <<>>
    /\ \/ Fraction(s) = <<>>
       \/ /\ Len(Fraction(s)) >= 2
          /\ Fraction(s)[1] = "."
          /\ \A i \in 2..Len(Fraction(s)) : Fraction(s)[i] = "0"

LiteralValue(s) ==
    LET m == DecValue(DigitPrefix(Unsigned(s)))
    IN  IF IsNegative(s) THEN 0 - m ELSE m

\* float(text) of a number literal: the nearest representable value.
ParseFloat(s) == Round(LiteralValue(s))

\* repr(x) as json.dump writes a float: "250.0", "-5.0".
float_repr(x) ==
    (IF x < 0 THEN <<"-">> ELSE <<>>)
        \o NatDigits(IF x < 0 THEN 0 - x ELSE x) \o <<".", "0">>

\* str(date): the day of the month, two digits (year and month are fixed).
str_date(d) == <<DigitChars[(d \div 10) + 1], DigitChars[(d % 10) + 1]>>

(***************************************************************************)
(* JSON values and the contents of DATA_FILE.                              *)
(***************************************************************************)
JNum(s) == [t |-> "num", s |-> s]
JStr(s) == [t |-> "str", s |-> s]
JNull == [t |-> "null", s |-> <<>>]
JAbsent == [t |-> "absent", s |-> <<>>]

\* kind: "missing" (no file), "empty" (zero bytes), "malformed" (not JSON),
\* "value" (valid JSON that is not an object), "object".
NoObject(kind) == [kind |-> kind, date |-> JAbsent, intake |-> JAbsent]

\* A tk.DoubleVar: set() stores anything, get() raises TclError unless the
\* stored value reads as a number.
DVar(x) == [ok |-> TRUE, v |-> x]
DVarBad == [ok |-> FALSE, v |-> 0]

DoubleVarSet(jv) ==
    IF jv.t = "num" THEN DVar(ParseFloat(jv.s))
    ELSE IF jv.t = "str" /\ IsNumberLiteral(jv.s) THEN DVar(ParseFloat(jv.s))
    ELSE DVarBad

\* Mutant of GoalMet: the guard compares with > instead of >=.
GoalMet_strict(x) == x > DAILY_GOAL

GoalMet(x) == x >= DAILY_GOAL

\* save_data: the whole file becomes {"date": str(today), "intake": get()}.
save_data(x, day) ==
    [kind |-> "object", date |-> JStr(str_date(day)), intake |-> JNum(float_repr(x))]

\* Mutant of load_data: the new-day branch forgets save_data().
load_data_nosave(f, day) ==
    IF f.kind = "missing"
    THEN [var |-> DVar(0), file |-> f, raised |-> "", br |-> "FileNotFoundError"]
    ELSE IF f.kind \in {"empty", "malformed"}
    THEN [var |-> DVar(0), file |-> f, raised |-> "", br |-> "JSONDecodeError"]
    ELSE IF f.kind = "value"
    THEN [var |-> DVar(0), file |-> f, raised |-> "AttributeError", br |-> "AttributeError"]
    ELSE IF f.date = JStr(str_date(day))
    THEN [var |-> IF f.intake.t = "absent" THEN DVar(0) ELSE DoubleVarSet(f.intake),
          file |-> f, raised |-> "", br |-> "same_day"]
    ELSE [var |-> DVar(0), file |-> f, raised |-> "", br |-> "new_day"]

\* Mutant of load_data: the stored date is never compared, every start is
\* taken for a new day.
load_data_always_new(f, day) ==
    IF f.kind = "missing"
    THEN [var |-> DVar(0), file |-> f, raised |-> "", br |-> "FileNotFoundError"]
    ELSE IF f.kind \in {"empty", "malformed"}
    THEN [var |-> DVar(0), file |-> f, raised |-> "", br |-> "JSONDecodeError"]
    ELSE IF f.kind = "value"
    THEN [var |-> DVar(0), file |-> f, raised |-> "AttributeError", br |-> "AttributeError"]
    ELSE [var |-> DVar(0), file |-> save_data(0, day), raised |-> "", br |-> "new_day"]

\* load_data: the DoubleVar and the file after the call, and what it raised.
load_data(f, day) ==
    IF f.kind = "missing"
    THEN [var |-> DVar(0), file |-> f, raised |-> "", br |-> "FileNotFoundError"]
    ELSE IF f.kind \in {"empty", "malformed"}
    THEN [var |-> DVar(0), file |-> f, raised |-> "", br |-> "JSONDecodeError"]
    ELSE IF f.kind = "value"
    THEN [var |-> DVar(0), file |-> f, raised |-> "AttributeError", br |-> "AttributeError"]
    ELSE IF f.date = JStr(str_date(day))
    THEN [var |-> IF f.intake.t = "absent" THEN DVar(0) ELSE DoubleVarSet(f.intake),
          file |-> f, raised |-> "", br |-> "same_day"]
    ELSE [var |-> DVar(0), file |-> save_data(0, day), raised |-> "", br |-> "new_day"]

\* update_display: the status label.
update_display(x) ==
    IF GoalMet(x) THEN [text |-> "Goal Achieved", ml |-> 0]
    ELSE [text |-> "You need more", ml |-> FloatSub(DAILY_GOAL, x)]

NoLabel == [text |-> "", ml |-> 0]

(***************************************************************************)
(* Inputs.                                                                 *)
(***************************************************************************)
EnterMl == <<"E", "n", "t", "e", "r", " ", "m", "l">>

\* What the user may leave in the entry field before pressing "Add Custom".
Entries ==
    { EnterMl, <<>>, <<"-", "5">>, <<"0">>, <<"1", "0", "0">>,
      <<"1", "9", "9", "9">>, <<"2", "0", "0", "0">> }

StoredDates == { JStr(str_date(1)), JStr(str_date(0)), JAbsent }

StoredIntakes ==
    { JNum(float_repr(0)), JNum(float_repr(250)), JNum(float_repr(1999)),
      JNum(float_repr(2250)), JNum(float_repr(0 - 250)),
      JStr(<<"a", "b", "c">>), JNull, JAbsent }

InitialFiles ==
    { NoObject(k) : k \in {"missing", "empty", "malformed", "value"} }
        \cup { [kind |-> "object", date |-> d, intake |-> i] :
                 d \in StoredDates, i \in StoredIntakes }

StoredNumber(f) ==
    IF f.kind = "object" /\ DoubleVarSet(f.intake).ok
    THEN DoubleVarSet(f.intake).v ELSE 0

Call(op, add, arg, text, answer, pre, br) ==
    [op |-> op, add |-> add, arg |-> arg, text |-> text, answer |-> answer,
     pre |-> pre, br |-> br]

(***************************************************************************)
(* The program.                                                            *)
(***************************************************************************)
Init ==
    /\ pc = "init"
    /\ today = 1
    /\ file \in InitialFiles
    /\ current_intake = DVar(0)
    /\ status_label = NoLabel
    /\ messagebox = ""
    /\ raised = ""
    /\ last = Call("", FALSE, 0, <<>>, FALSE, 0, "")
    /\ written = [day |-> 0, v |-> 0]
    /\ mem_oldest = 0
    /\ file_oldest = IF StoredNumber(file) # 0 /\ file.date = JStr(str_date(1))
                     THEN 1 ELSE 0

\* __init__: load_data(), create_widgets(), update_display().
Startup ==
    /\ pc = "init"
    /\ LET r == load_data(file, today)
           exc == IF r.raised # "" THEN r.raised
                  ELSE IF ~r.var.ok THEN "TclError" ELSE ""
       IN  /\ file' = r.file
           /\ current_intake' = IF r.raised = "" THEN r.var ELSE current_intake
           /\ raised' = exc
           /\ pc' = IF exc = "" THEN "running" ELSE "crashed"
           /\ status_label' = IF exc = "" THEN update_display(r.var.v) ELSE status_label
           /\ last' = Call("load_data", FALSE, 0, <<>>, FALSE, StoredNumber(file), r.br)
           /\ written' = IF r.br = "new_day" THEN [day |-> today, v |-> 0] ELSE written
           /\ mem_oldest' = IF r.br = "same_day" /\ r.var.ok THEN file_oldest ELSE 0
           /\ file_oldest' = IF r.br = "new_day" THEN 0 ELSE file_oldest
    /\ messagebox' = ""
    /\ UNCHANGED today

\* Mutant of add_water: the new intake is shown but save_data() is not called.
add_water_nosave(amount_ml) ==
    IF GoalMet(current_intake.v)
    THEN /\ messagebox' = ""
         /\ UNCHANGED <<current_intake, file, status_label, written,
                        mem_oldest, file_oldest>>
    ELSE LET new_intake == FloatAdd(current_intake.v, amount_ml)
         IN  /\ current_intake' = DVar(new_intake)
             /\ status_label' = update_display(new_intake)
             /\ mem_oldest' = IF mem_oldest = 0 THEN today ELSE mem_oldest
             /\ messagebox' =
                    IF new_intake >= DAILY_GOAL
                       /\ FloatSub(new_intake, amount_ml) < DAILY_GOAL
                    THEN "showinfo" ELSE ""
             /\ UNCHANGED <<file, written, file_oldest>>

\* add_water(amount_ml): its effect on the DoubleVar, the label, the file and
\* the message box.
add_water(amount_ml) ==
    IF GoalMet(current_intake.v)
    THEN /\ messagebox' = ""
         /\ UNCHANGED <<current_intake, file, status_label, written,
                        mem_oldest, file_oldest>>
    ELSE LET new_intake == FloatAdd(current_intake.v, amount_ml)
         IN  /\ current_intake' = DVar(new_intake)
             /\ status_label' = update_display(new_intake)
             /\ file' = save_data(new_intake, today)
             /\ written' = [day |-> today, v |-> new_intake]
             /\ mem_oldest' = IF mem_oldest = 0 THEN today ELSE mem_oldest
             /\ file_oldest' = mem_oldest'
             /\ messagebox' =
                    IF new_intake >= DAILY_GOAL
                       /\ FloatSub(new_intake, amount_ml) < DAILY_GOAL
                    THEN "showinfo" ELSE ""

AddBranch == IF GoalMet(current_intake.v) THEN "goal_met" ELSE "applied"

AddGlass ==
    /\ pc = "running"
    /\ add_water(250)
    /\ last' = Call("add_glass", TRUE, 250, <<>>, FALSE, current_intake.v, AddBranch)
    /\ UNCHANGED <<pc, today, raised>>

AddBottle ==
    /\ pc = "running"
    /\ add_water(500)
    /\ last' = Call("add_bottle", TRUE, 500, <<>>, FALSE, current_intake.v, AddBranch)
    /\ UNCHANGED <<pc, today, raised>>

\* Mutant of add_custom_amount: the amount > 0 test is missing.
add_custom_amount_nocheck(text) ==
    IF ~IsNumberLiteral(text)
    THEN /\ messagebox' = "showerror"
         /\ last' = Call("add_custom_amount", FALSE, 0, text, FALSE,
                         current_intake.v, "ValueError")
         /\ UNCHANGED <<current_intake, file, status_label, written,
                        mem_oldest, file_oldest>>
    ELSE /\ add_water(ParseFloat(text))
         /\ last' = Call("add_custom_amount", TRUE, ParseFloat(text), text, FALSE,
                         current_intake.v, AddBranch)

add_custom_amount(text) ==
    IF ~IsNumberLiteral(text)
    THEN /\ messagebox' = "showerror"
         /\ last' = Call("add_custom_amount", FALSE, 0, text, FALSE,
                         current_intake.v, "ValueError")
         /\ UNCHANGED <<current_intake, file, status_label, written,
                        mem_oldest, file_oldest>>
    ELSE IF ParseFloat(text) > 0
    THEN /\ add_water(ParseFloat(text))
         /\ last' = Call("add_custom_amount", TRUE, ParseFloat(text), text, FALSE,
                         current_intake.v, AddBranch)
    ELSE /\ messagebox' = "showwarning"
         /\ last' = Call("add_custom_amount", FALSE, ParseFloat(text), text, FALSE,
                         current_intake.v, "not_positive")
         /\ UNCHANGED <<current_intake, file, status_label, written,
                        mem_oldest, file_oldest>>

AddCustom ==
    /\ pc = "running"
    /\ \E text \in Entries : add_custom_amount(text)
    /\ UNCHANGED <<pc, today, raised>>

\* Mutant of reset_day: the label is reset but the DoubleVar and the file
\* keep the old intake.
reset_day_label_only(answer) ==
    IF answer
    THEN /\ status_label' = update_display(0)
         /\ UNCHANGED <<current_intake, file, written, mem_oldest, file_oldest>>
    ELSE UNCHANGED <<current_intake, file, status_label, written,
                     mem_oldest, file_oldest>>

reset_day(answer) ==
    IF answer
    THEN /\ current_intake' = DVar(0)
         /\ status_label' = update_display(0)
         /\ file' = save_data(0, today)
         /\ written' = [day |-> today, v |-> 0]
         /\ mem_oldest' = 0
         /\ file_oldest' = 0
    ELSE UNCHANGED <<current_intake, file, status_label, written,
                     mem_oldest, file_oldest>>

ResetDay ==
    /\ pc = "running"
    /\ \E answer \in BOOLEAN :
          /\ reset_day(answer)
          /\ last' = Call("reset_day", FALSE, 0, <<>>, answer, current_intake.v,
                          IF answer THEN "confirmed" ELSE "declined")
    /\ messagebox' = "askyesno"
    /\ UNCHANGED <<pc, today, raised>>

\* date.today() moves to the next day, whatever the process is doing.
Midnight ==
    /\ today < MaxDay
    /\ today' = today + 1
    /\ last' = Call("midnight", FALSE, 0, <<>>, FALSE, current_intake.v, "")
    /\ UNCHANGED <<pc, file, current_intake, status_label, messagebox, raised,
                   written, mem_oldest, file_oldest>>

\* The window is closed (or __init__ failed) and the program is started again.
Relaunch ==
    /\ pc \in {"running", "crashed"}
    /\ pc' = "init"
    /\ current_intake' = DVar(0)
    /\ status_label' = NoLabel
    /\ messagebox' = ""
    /\ raised' = ""
    /\ mem_oldest' = 0
    /\ last' = Call("relaunch", FALSE, 0, <<>>, FALSE, current_intake.v, "")
    /\ UNCHANGED <<today, file, written, file_oldest>>

Next ==
    \/ Startup
    \/ AddGlass
    \/ AddBottle
    \/ AddCustom
    \/ ResetDay
    \/ Midnight
    \/ Relaunch

Spec == Init /\ [][Next]_vars

(***************************************************************************)
(* Sanity of the model.                                                    *)
(***************************************************************************)
\* The main loop only runs with a DoubleVar that reads as a number:
\* __init__ calls update_display, which reads it.
RunningReadsNumber == pc = "running" => current_intake.ok

(***************************************************************************)
(* The claims.                                                             *)
(***************************************************************************)

\* C1: whenever add_water(amount_ml) is called with amount_ml > 0 and the
\* in-memory intake below DAILY_GOAL, the in-memory intake afterwards is the
\* old intake plus amount_ml (the float sum, neither capped nor dropped)
\* and the file holds a record with today's date and that same new intake.
C1_AddBelowGoal ==
    (last.add /\ last.arg > 0 /\ last.pre < DAILY_GOAL) =>
        /\ current_intake = DVar(FloatAdd(last.pre, last.arg))
        /\ file.kind = "object"
        /\ file.date = JStr(str_date(today))
        /\ file.intake.t = "num"
        /\ IsNumberLiteral(file.intake.s)
        /\ ParseFloat(file.intake.s) = current_intake.v

\* An add of 500 on top of 250: below the goal before and after.
C1_Witness ==
    /\ last.add
    /\ last.pre = 250
    /\ last.arg = 500
    /\ current_intake.v = 750

\* C2: a call of add_water made with the in-memory intake at or above
\* DAILY_GOAL changes neither the in-memory intake nor the file nor the
\* status label and raises no goal-reached notification; and while the
\* program runs, an intake at or above the goal only changes by a
\* confirmed reset.
C2_NoOpAtGoal ==
    [][ /\ (last'.add /\ last'.pre >= DAILY_GOAL) =>
             /\ current_intake' = current_intake
             /\ file' = file
             /\ status_label' = status_label
             /\ messagebox' # "showinfo"
        /\ ( /\ pc = "running"
             /\ pc' = "running"
             /\ current_intake.v >= DAILY_GOAL
             /\ ~(last'.op = "reset_day" /\ last'.answer) ) =>
             current_intake' = current_intake
      ]_vars

\* The scenario of the specification: 2250 reached, then add(100).
C2_Witness ==
    /\ last.add
    /\ last.arg = 100
    /\ last.pre = 2250
    /\ current_intake.v = 2250
    /\ file.intake = JNum(float_repr(2250))

\* C3: a call of add_water raises the goal-reached notification if and
\* only if the intake before the call was below DAILY_GOAL and the intake
\* after it is at or above DAILY_GOAL.
C3_NotifiedIffCrossing ==
    last.add =>
        ( (messagebox = "showinfo")
            <=> (last.pre < DAILY_GOAL /\ current_intake.v >= DAILY_GOAL) )

\* C4: a persisted record dated d counts only amounts added on day d.
C4_DayIsolation ==
    (file.kind = "object" /\ file_oldest # 0) =>
        file.date = JStr(str_date(file_oldest))

\* C5: starting on a file whose record carries a date other than today's
\* sets the in-memory intake to 0 and overwrites the file with today's date
\* and intake 0, whatever the stale record held, and raises nothing.
C5_StaleDateReset ==
    [][ ( /\ pc = "init"
          /\ pc' # "init"
          /\ file.kind = "object"
          /\ file.date # JStr(str_date(today)) ) =>
          /\ current_intake' = DVar(0)
          /\ file' = [kind |-> "object",
                      date |-> JStr(str_date(today)),
                      intake |-> JNum(<<"0", ".", "0">>)]
          /\ raised' = ""
          /\ pc' = "running"
      ]_vars

\* A record of 2250 mL from another day has been replaced at start-up.
C5_Witness ==
    /\ last.op = "load_data"
    /\ last.br = "new_day"
    /\ last.pre = 2250
    /\ current_intake = DVar(0)
    /\ file.date = JStr(str_date(today))
    /\ file.intake = JNum(<<"0", ".", "0">>)

\* C6: load_data on a missing file, an empty file, malformed JSON, valid
\* JSON that is not an object, or a record whose intake is not a number
\* raises nothing to its caller and leaves the in-memory intake at 0.
C6_CorruptLoadsAsFresh ==
    [][ ( /\ pc = "init"
          /\ pc' # "init"
          /\ \/ file.kind \in {"missing", "empty", "malformed", "value"}
             \/ /\ file.kind = "object"
                /\ file.intake.t \in {"str", "null"}
                /\ ~IsNumberLiteral(file.intake.s) ) =>
          /\ raised' # "AttributeError"
          /\ current_intake' = DVar(0)
      ]_vars

\* C7: a confirmed reset_day sets the in-memory intake to 0, writes a
\* record with today's date and intake 0, raises no goal-reached
\* notification and shows the full DAILY_GOAL as remaining; the next add is
\* applied, and raises the notification when it alone reaches the goal.
C7_Reset ==
    [][ /\ (last'.op = "reset_day" /\ last'.answer) =>
             /\ current_intake' = DVar(0)
             /\ file' = [kind |-> "object",
                         date |-> JStr(str_date(today)),
                         intake |-> JNum(<<"0", ".", "0">>)]
             /\ messagebox' # "showinfo"
             /\ status_label' = [text |-> "You need more", ml |-> DAILY_GOAL]
        /\ (last.op = "reset_day" /\ last.answer /\ last'.add) =>
             /\ current_intake'.v = last'.arg
             /\ file'.intake = JNum(float_repr(last'.arg))
             /\ (last'.arg >= DAILY_GOAL => messagebox' = "showinfo")
      ]_vars

\* A reset confirmed with the goal already met.
C7_Witness ==
    /\ last.op = "reset_day"
    /\ last.answer
    /\ last.pre >= DAILY_GOAL
    /\ current_intake = DVar(0)
    /\ status_label.ml = DAILY_GOAL

\* C8: starting the program on the day of the last save_data restores the
\* in-memory intake that save_data wrote and leaves the file as it was.
C8_RoundTrip ==
    [][ ( /\ pc = "init"
          /\ pc' # "init"
          /\ written.day = today ) =>
          /\ current_intake' = DVar(written.v)
          /\ file' = file
          /\ raised' = ""
      ]_vars

\* A saved, non-zero intake read back on the same day.
C8_Witness ==
    /\ last.op = "load_data"
    /\ last.br = "same_day"
    /\ written.day = today
    /\ written.v = 2250
    /\ current_intake = DVar(2250)

\* C9: add_custom_amount on an entry that is not a number or not positive,
\* and reset_day with the confirmation declined, change neither the
\* in-memory intake nor the file nor the status label and raise no
\* goal-reached notification.
C9_RejectedInputNoChange ==
    [][ ( \/ /\ last'.op = "add_custom_amount"
             /\ \/ ~IsNumberLiteral(last'.text)
                \/ LiteralValue(last'.text) <= 0
          \/ /\ last'.op = "reset_day"
             /\ ~last'.answer ) =>
          /\ current_intake' = current_intake
          /\ file' = file
          /\ status_label' = status_label
          /\ messagebox' # "showinfo"
      ]_vars

\* A negative entry rejected with 250 mL already recorded.
C9_Witness ==
    /\ last.op = "add_custom_amount"
    /\ last.text = <<"-", "5">>
    /\ messagebox = "showwarning"
    /\ current_intake = DVar(250)
    /\ file.intake = JNum(float_repr(250))

\* C10: after start-up and after every handler that returns normally, a
\* persisted record exists, is dated today, holds the in-memory intake,
\* and that intake is not negative.
C10_Mirror ==
    ( /\ last.op \in {"load_data", "add_glass", "add_bottle",
                      "add_custom_amount", "reset_day"}
      /\ raised = "" ) =>
        /\ file.kind = "object"
        /\ file.date = JStr(str_date(today))
        /\ file.intake.t = "num"
        /\ ParseFloat(file.intake.s) = current_intake.v
        /\ current_intake.v >= 0

====
